---------------------------- MODULE Spec2Model ----------------------------
(***************************************************************************)
(* Model of packages/vega/src/index.ts: the Vega / Vega-Lite mime renderer *)
(* (VegaRendererFactory, RenderedVega, Private.updateVegaLiteDefaults).    *)
(*                                                                         *)
(* JavaScript objects live in a heap: a sequence of objects, an object     *)
(* being a function from its own enumerable keys to values, a reference    *)
(* being an index into the heap.  Object identity, sharing and mutation    *)
(* are therefore visible in the model.                                     *)
(***************************************************************************)
EXTENDS Integers, Sequences, FiniteSets, TLC

VARIABLES
    heap,        \* the JavaScript heap: Seq of objects (key -> value)
    mimeTypes,   \* VegaRendererFactory.mimeTypes (instance field)
    model,       \* the IMimeModel the host renders: [data: mime type -> value]
    views,       \* the RenderedVega widgets created so far
    calls,       \* one record per renderModel call (embed call and promise)
    lastAnswer   \* the value returned by the last canCreateRenderer call

vars == <<heap, mimeTypes, model, views, calls, lastAnswer>>

---------------------------------------------------------------------------
(* Bounds of the model.                                                    *)

MaxViews == 2
MaxCalls == 2

---------------------------------------------------------------------------
(* Program constants.                                                      *)

VEGA_COMMON_CLASS == "jp-RenderedVegaCommon"
VEGA_CLASS == "jp-RenderedVega"
VEGALITE_CLASS == "jp-RenderedVegaLite"
VEGA_MIME_TYPE == "application/vnd.vega.v2+json"
VEGALITE_MIME_TYPE == "application/vnd.vegalite.v1+json"

---------------------------------------------------------------------------
(* JavaScript values.  Every value is a record of one shape, so that any   *)
(* two values can be compared: t is the type tag, p/q a number as the      *)
(* fraction p/q in lowest terms (for a reference p is the heap index),     *)
(* s a string.                                                             *)

Undefined == [t |-> "undefined", p |-> 0, q |-> 1, s |-> ""]
Null == [t |-> "null", p |-> 0, q |-> 1, s |-> ""]
Str(s) == [t |-> "str", p |-> 0, q |-> 1, s |-> s]
Ref(r) == [t |-> "ref", p |-> r, q |-> 1, s |-> ""]

RECURSIVE Gcd(_, _)
Gcd(a, b) == IF b = 0 THEN a ELSE Gcd(b, a % b)

\* The number p/q (q > 0), reduced.
Num(p, q) == [t |-> "num", p |-> p \div Gcd(p, q), q |-> q \div Gcd(p, q), s |-> ""]

\* JavaScript a / b on numbers (b positive here).
Divide(a, b) == Num(a.p * b.q, a.q * b.p)

EmptyObject == << >>

\* The characters of the strings that occur in payloads.
StringChars ==
    ("ab" :> <<"a", "b">>) @@ ("bar" :> <<"b", "a", "r">>) @@
    ("x" :> <<"x">>) @@ ("top" :> <<"t", "o", "p">>) @@ ("" :> << >>)

\* The property name of array index i (0-based).
IndexKey == <<"0", "1", "2">>

\* The own enumerable properties of a value, as object spread and
\* hasOwnProperty see them: an object's own keys, a string's indexed
\* characters, nothing for another primitive.
OwnProps(h, v) ==
    IF v.t = "ref" THEN h[v.p]
    ELSE IF v.t = "str"
    THEN LET cs == StringChars[v.s]
         IN  [k \in {IndexKey[i] : i \in 1..Len(cs)} |->
                 Str(cs[CHOOSE i \in 1..Len(cs) : IndexKey[i] = k])]
    ELSE EmptyObject

\* Reading a property of undefined or null throws a TypeError.
IsNullish(v) == v.t \in {"undefined", "null"}

\* The outcome of a call: it threw, or it returned ret, leaving heap.
Thrown(h) == [threw |-> TRUE, heap |-> h, ret |-> Undefined]
Returned(h, v) == [threw |-> FALSE, heap |-> h, ret |-> v]

\* The method call v.hasOwnProperty(k).  The method is looked up on the
\* receiver: on undefined or null the lookup throws a TypeError; an own
\* key named hasOwnProperty shadows Object.prototype.hasOwnProperty, and
\* its value, a JSON value, is no function, so the call throws a TypeError;
\* otherwise the inherited method answers whether k is an own key.
HasOwnProperty(h, v, k) ==
    IF IsNullish(v) THEN Thrown(h)
    ELSE IF "hasOwnProperty" \in DOMAIN OwnProps(h, v) THEN Thrown(h)
    ELSE [threw |-> FALSE, heap |-> h, ret |-> k \in DOMAIN OwnProps(h, v)]

\* v.k (own properties only), for a v that is not nullish.
GetProp(h, v, k) ==
    IF k \in DOMAIN OwnProps(h, v) THEN OwnProps(h, v)[k] ELSE Undefined

\* {...a, ...b} on the property maps a and b: later keys win.
Spread(a, b) ==
    [k \in DOMAIN a \cup DOMAIN b |-> IF k \in DOMAIN b THEN b[k] ELSE a[k]]

\* The object literal {k: v}.
Single(k, v) == [x \in {k} |-> v]

\* Allocation of a new object; its reference is NewRef(h).
Alloc(h, obj) == Append(h, obj)
NewRef(h) == Ref(Len(h) + 1)

---------------------------------------------------------------------------
(* namespace Private                                                       *)

\* const defaultCellConfig = {"width": 400, "height": 400/1.5}
defaultCellConfig ==
    Single("width", Num(400, 1)) @@
    Single("height", Divide(Num(400, 1), Num(3, 2)))

\* defaultCellConfig is allocated once, when the module is loaded.
DefaultRef == Ref(1)

\* {...{"config": {...{"cell": cellObj}}, ...spec.config}, ...spec}
\* where cellObj is the reference of the freshly built cell object: the
\* literals are allocated innermost first.
WrapConfig(h, spec, config) ==
    LET h1 == Alloc(h, Single("cell", Ref(Len(h))))           \* {"cell": cellObj}
        h2 == Alloc(h1, Spread(EmptyObject, OwnProps(h1, NewRef(h))))
                                                              \* {...{"cell": ..}}
        h3 == Alloc(h2, Spread(Single("config", NewRef(h1)),
                               OwnProps(h2, config)))
                                       \* {"config": {..}, ...spec.config}
        h4 == Alloc(h3, Spread(Spread(EmptyObject, OwnProps(h3, NewRef(h2))),
                               OwnProps(h3, spec)))
                                       \* {...{..}, ...spec}
    IN  Returned(h4, NewRef(h3))

\* A mutation of updateVegaLiteDefaults: the merge done in place, as in the
\* lines the source keeps commented out:
\*   spec['config'] = spec['config'] || {};
\*   cellObject = spec['config']['cell'] || {};
\*   spec['config']['cell'] = {...defaultCellConfig, ...cellObject};
updateVegaLiteDefaultsInPlace(h, spec) ==
    IF spec.t # "ref" THEN Thrown(h)
    ELSE LET old == GetProp(h, spec, "config")
             h1 == IF old.t = "ref" THEN h
                   ELSE [Alloc(h, EmptyObject) EXCEPT
                            ![spec.p] = Spread(@, Single("config", NewRef(h)))]
             config == h1[spec.p]["config"]
             cell == GetProp(h1, config, "cell")
             h2 == Alloc(h1, Spread(OwnProps(h1, DefaultRef), OwnProps(h1, cell)))
             h3 == [h2 EXCEPT
                       ![config.p] = Spread(@, Single("cell", NewRef(h1)))]
         IN  Returned(h3, spec)

\* function updateVegaLiteDefaults(spec)
updateVegaLiteDefaults(h, spec) ==
    IF HasOwnProperty(h, spec, "config").threw THEN Thrown(h)
    ELSE IF HasOwnProperty(h, spec, "config").ret
    THEN LET config == GetProp(h, spec, "config")
         IN  IF HasOwnProperty(h, config, "cell").threw THEN Thrown(h)
             ELSE IF HasOwnProperty(h, config, "cell").ret
             THEN \* {...defaultCellConfig, ...spec.config.cell}
                  WrapConfig(
                      Alloc(h, Spread(Spread(EmptyObject, OwnProps(h, DefaultRef)),
                                      OwnProps(h, GetProp(h, config, "cell")))),
                      spec, config)
             ELSE \* {...defaultCellConfig}
                  WrapConfig(
                      Alloc(h, Spread(EmptyObject, OwnProps(h, DefaultRef))),
                      spec, config)
    ELSE \* {...{"config": {"cell": defaultCellConfig}}, ...spec}
         LET h1 == Alloc(h, Single("cell", DefaultRef))
             h2 == Alloc(h1, Single("config", NewRef(h)))
             h3 == Alloc(h2, Spread(Spread(EmptyObject, OwnProps(h2, NewRef(h1))),
                                    OwnProps(h2, spec)))
         IN  Returned(h3, NewRef(h2))

---------------------------------------------------------------------------
(* class RenderedVega                                                      *)

\* constructor(options): the widget's fields after construction.
RenderedVega(options) ==
    IF options.mimeType = VEGA_MIME_TYPE
    THEN [mimeType |-> options.mimeType, mode |-> "vega",
          classes |-> {VEGA_COMMON_CLASS, VEGA_CLASS}]
    ELSE [mimeType |-> options.mimeType, mode |-> "vega-lite",
          classes |-> {VEGA_COMMON_CLASS, VEGALITE_CLASS}]

\* model.data[mimeType]: undefined when the bundle has no such key.
ModelData(m, mimeType) ==
    IF mimeType \in DOMAIN m.data THEN m.data[mimeType] ELSE Undefined

\* A mutation of renderModel: the defaults are merged whatever the mode.
renderModelAlwaysMerge(h, view, m) ==
    LET data == ModelData(m, view.mimeType)
        upd == updateVegaLiteDefaults(h, data)
    IN  [heap |-> upd.heap,
         call |-> [mode |-> view.mode,
                   mimeType |-> view.mimeType,
                   data |-> data,
                   threw |-> upd.threw,
                   embedded |-> ~upd.threw,
                   spec |-> upd.ret,
                   promise |-> IF upd.threw THEN "none" ELSE "pending",
                   fired |-> FALSE,
                   error |-> FALSE]]

\* renderModel(model), up to the embed call: the payload is looked up under
\* the view's MIME type, merged with the defaults in vega-lite mode, and
\* handed to embed with the mode; the promise returned is pending.  A throw
\* of updateVegaLiteDefaults leaves renderModel before embed is called.
renderModel(h, view, m) ==
    LET data == ModelData(m, view.mimeType)
        upd == IF view.mode = "vega-lite"
               THEN updateVegaLiteDefaults(h, data)
               ELSE Returned(h, data)
    IN  [heap |-> upd.heap,
         call |-> [mode |-> view.mode,
                   mimeType |-> view.mimeType,
                   data |-> data,
                   threw |-> upd.threw,
                   embedded |-> ~upd.threw,
                   spec |-> upd.ret,
                   promise |-> IF upd.threw THEN "none" ELSE "pending",
                   fired |-> FALSE,
                   error |-> FALSE]]

\* Promise resolve: settles a pending promise, no effect on a settled one.
resolve(promise) == IF promise = "pending" THEN "resolved" ELSE promise

\* Promise reject: settles a pending promise, no effect on a settled one.
reject(promise) == IF promise = "pending" THEN "rejected" ELSE promise

\* A mutation of the callback: an error reported by the embedder rejects.
embedCallbackReject(call, error) ==
    [call EXCEPT !.promise = IF error THEN reject(@) ELSE resolve(@),
                 !.fired = TRUE, !.error = error]

\* The callback given to embed: (error, result) => { resolve(undefined) }
embedCallback(call, error) ==
    [call EXCEPT !.promise = resolve(@), !.fired = TRUE, !.error = error]

---------------------------------------------------------------------------
(* class VegaRendererFactory                                               *)

\* Array.prototype.indexOf: the 0-based index of the first element strictly
\* equal to x, or -1.
IndexOf(arr, x) ==
    IF \E i \in 1..Len(arr) : arr[i] = x
    THEN (CHOOSE i \in 1..Len(arr) :
              arr[i] = x /\ \A j \in 1..(i - 1) : arr[j] # x) - 1
    ELSE -1

\* A mutation of canCreateRenderer: the index compared with > 0, not
\* with !== -1.
canCreateRendererPositive(types, options) ==
    IndexOf(types, options.mimeType) > 0

\* canCreateRenderer(options)
canCreateRenderer(types, options) == IndexOf(types, options.mimeType) # -1

---------------------------------------------------------------------------
(* The inputs: the MIME types the host asks about and the payloads it      *)
(* renders.                                                                *)

MimeStrings ==
    {VEGA_MIME_TYPE, VEGALITE_MIME_TYPE, "",
     "APPLICATION/VND.VEGA.V2+JSON", "application/vnd.vegalite.V1+json",
     "application/json"}

\* The MIME types views are created for: the two registered ones and one
\* that canCreateRenderer refuses.
RendererMimeStrings == {VEGA_MIME_TYPE, VEGALITE_MIME_TYPE, "application/json"}

\* Top-level keys of a payload other than config.
TopChoices ==
    {Single("mark", Str("bar")),
     Single("mark", Str("bar")) @@ Single("other", Str("top"))}

\* Caller-supplied cell objects.
CellChoices ==
    {EmptyObject,
     Single("width", Num(999, 1)),
     Single("height", Num(50, 1)),
     Single("width", Num(999, 1)) @@ Single("height", Num(50, 1))}

\* Keys of config other than cell.
SiblingChoices == {EmptyObject, Single("other", Str("x"))}

\* The heap holding defaultCellConfig and a payload object {...top} with
\* no config key; the payload is object 2.
HeapNoConfig(top) == <<defaultCellConfig, top>>

\* The payload {...top, config: v} for a config v that is not an object.
HeapPrimConfig(top, v) == <<defaultCellConfig, top @@ Single("config", v)>>

\* The payload {...top, config: {...sib}}: config is object 3.
HeapConfig(top, sib) ==
    <<defaultCellConfig, top @@ Single("config", Ref(3)), sib>>

\* The payload {...top, config: {...sib, cell: {...cell}}}: cell is object 4.
HeapConfigCell(top, sib, cell) ==
    <<defaultCellConfig, top @@ Single("config", Ref(3)),
      sib @@ Single("cell", Ref(4)), cell>>

PayloadRef == Ref(2)

\* Payloads in which an own key named hasOwnProperty, at the top level or
\* in config, shadows the inherited method.
ShadowingHeaps ==
    {HeapNoConfig(Single("mark", Str("bar")) @@
                  Single("hasOwnProperty", Num(1, 1))),
     HeapPrimConfig(Single("hasOwnProperty", Num(1, 1)), Num(1, 1)),
     HeapConfig(Single("mark", Str("bar")),
                Single("hasOwnProperty", Str("x"))),
     HeapConfigCell(Single("mark", Str("bar")),
                    Single("hasOwnProperty", Str("x")),
                    Single("width", Num(999, 1)))}

InitialHeaps ==
    ShadowingHeaps \cup
    {HeapNoConfig(top) : top \in TopChoices}
    \cup {HeapPrimConfig(top, v) :
              top \in TopChoices, v \in {Null, Num(5, 1), Str("ab")}}
    \cup {HeapConfig(top, sib) : top \in TopChoices, sib \in SiblingChoices}
    \cup {HeapConfigCell(top, sib, cell) :
              top \in TopChoices, sib \in SiblingChoices, cell \in CellChoices}

---------------------------------------------------------------------------
(* The state machine.                                                      *)

Init ==
    /\ heap \in InitialHeaps
    /\ mimeTypes = <<VEGA_MIME_TYPE, VEGALITE_MIME_TYPE>>
    /\ \E K \in SUBSET {VEGA_MIME_TYPE, VEGALITE_MIME_TYPE} :
           model = [data |-> [k \in K |-> PayloadRef]]
    /\ views = << >>
    /\ calls = << >>
    /\ lastAnswer = [asked |-> FALSE, mimeType |-> "", result |-> FALSE]

\* The host asks the factory whether it renders MIME type m.
CanCreateRenderer(m) ==
    /\ lastAnswer' = [asked |-> TRUE, mimeType |-> m,
                      result |-> canCreateRenderer(mimeTypes, [mimeType |-> m])]
    /\ UNCHANGED <<heap, mimeTypes, model, views, calls>>

\* createRenderer(options): return new RenderedVega(options).
CreateRenderer(m) ==
    /\ Len(views) < MaxViews
    /\ views' = Append(views, RenderedVega([mimeType |-> m]))
    /\ UNCHANGED <<heap, mimeTypes, model, calls, lastAnswer>>

\* The host calls view v's renderModel with the model.
RenderModel(v) ==
    /\ Len(calls) < MaxCalls
    /\ LET r == renderModel(heap, views[v], model)
       IN  /\ heap' = r.heap
           /\ calls' = Append(calls, [view |-> v] @@ r.call)
    /\ UNCHANGED <<mimeTypes, model, views, lastAnswer>>

\* The embedder invokes the callback of embed call i, reporting an error
\* (error = TRUE) or none; nothing keeps it from doing so again.
EmbedCallback(i, error) ==
    /\ calls[i].embedded
    /\ calls' = [calls EXCEPT ![i] = embedCallback(@, error)]
    /\ UNCHANGED <<heap, mimeTypes, model, views, lastAnswer>>

\* The views and their renders.
Next ==
    \/ \E m \in RendererMimeStrings : CreateRenderer(m)
    \/ \E v \in 1..Len(views) : RenderModel(v)
    \/ \E i \in 1..Len(calls), error \in BOOLEAN : EmbedCallback(i, error)

Spec == Init /\ [][Next]_vars

\* The factory alone: the host asking and creating.
FactoryNext ==
    \/ \E m \in MimeStrings : CanCreateRenderer(m)
    \/ \E m \in MimeStrings : CreateRenderer(m)

FactorySpec == Init /\ [][FactoryNext]_vars

---------------------------------------------------------------------------
(* Vocabulary of the properties.                                           *)

IsObject(v) == v.t = "ref"

\* The object a reference denotes in the current heap.
Obj(v) == heap[v.p]

\* The record {width: 400, height: 400/1.5}, written out: 400/1.5 = 800/3.
DefaultCellRecord ==
    Single("width", [t |-> "num", p |-> 400, q |-> 1, s |-> ""]) @@
    Single("height", [t |-> "num", p |-> 800, q |-> 3, s |-> ""])

\* The renderModel calls made on views bound to the Vega-Lite MIME type.
LiteCalls ==
    {i \in 1..Len(calls) :
        calls[i].mimeType = "application/vnd.vegalite.v1+json"}

\* The renderModel calls made on views bound to the Vega MIME type.
VegaCalls ==
    {i \in 1..Len(calls) : calls[i].mimeType = "application/vnd.vega.v2+json"}

HasConfig(S) == IsObject(S) /\ "config" \in DOMAIN Obj(S)

HasCell(S) ==
    HasConfig(S) /\ IsObject(Obj(S).config) /\ "cell" \in DOMAIN Obj(Obj(S).config)

\* A JSON-object payload whose config, if any, is an object, and whose
\* config.cell, if any, is an object.
WellFormed(S) ==
    /\ IsObject(S)
    /\ HasConfig(S) => IsObject(Obj(S).config)
    /\ HasCell(S) => IsObject(Obj(Obj(S).config).cell)

\* No payload, or a config that is null or not an object.
Malformed(S) ==
    \/ S.t = "undefined"
    \/ HasConfig(S) /\ ~IsObject(Obj(S).config)

\* The cell object the caller supplied, {} when there is none.
CallerCell(S) == IF HasCell(S) THEN Obj(Obj(Obj(S).config).cell) ELSE EmptyObject

\* The spec handed to embed has a config.cell object.
SpecHasCell(c) ==
    /\ c.embedded
    /\ IsObject(c.spec)
    /\ "config" \in DOMAIN Obj(c.spec)
    /\ IsObject(Obj(c.spec).config)
    /\ "cell" \in DOMAIN Obj(Obj(c.spec).config)
    /\ IsObject(Obj(Obj(c.spec).config).cell)

\* The config.cell object of the spec handed to embed.
SpecCell(c) == Obj(Obj(Obj(c.spec).config).cell)

\* The objects reachable from the payloads of the model: each payload S,
\* S.config and S.config.cell.
ArgumentRefs ==
    LET roots == {model.data[k] : k \in DOMAIN model.data}
        specs == {S \in roots : IsObject(S)}
        configs == {Obj(S).config : S \in {x \in specs : HasConfig(x)}}
        cells == {Obj(c).cell :
                    c \in {x \in configs : IsObject(x) /\ "cell" \in DOMAIN Obj(x)}}
    IN  {v.p : v \in {x \in specs \cup configs \cup cells : IsObject(x)}}

---------------------------------------------------------------------------
(* The properties.                                                         *)

\* C1: for every renderModel call on a view bound to the Vega-Lite MIME
\* type whose payload is a JSON object (no config, config without cell,
\* config with a partial or full cell), the spec handed to the embedder has
\* a config.cell object with both width and height present, every
\* caller-supplied cell value taking precedence over the default.
C1_EmbedSpecHasCellSize ==
    \A i \in LiteCalls :
        WellFormed(calls[i].data) =>
            /\ SpecHasCell(calls[i])
            /\ {"width", "height"} \subseteq DOMAIN SpecCell(calls[i])
            /\ \A k \in DOMAIN CallerCell(calls[i].data) :
                   /\ k \in DOMAIN SpecCell(calls[i])
                   /\ SpecCell(calls[i])[k] = CallerCell(calls[i].data)[k]

\* C2: for every spec S that has a config key, the merge result's
\* config.cell equals {width: 400, height: 400/1.5} overridden key by key
\* by the keys of S.config.cell (by nothing when S.config has no cell).
C2_CellIsDefaultsOverridden ==
    \A i \in LiteCalls :
        (WellFormed(calls[i].data) /\ HasConfig(calls[i].data)) =>
            /\ SpecHasCell(calls[i])
            /\ SpecCell(calls[i]) =
                   [k \in {"width", "height"} \cup DOMAIN CallerCell(calls[i].data) |->
                       IF k \in DOMAIN CallerCell(calls[i].data)
                       THEN CallerCell(calls[i].data)[k]
                       ELSE DefaultCellRecord[k]]

\* C3: for every spec S without a config key, the merge result is S plus a
\* config key whose value is {cell: {width: 400, height: 400/1.5}}, every
\* original top-level key unchanged in value; a Vega-Lite view rendering
\* such a payload (as {"mark": "bar"}) calls the embedder with mode
\* "vega-lite" and that spec.
C3_NoConfigGetsDefaultConfig ==
    \A i \in LiteCalls :
        (IsObject(calls[i].data) /\ ~HasConfig(calls[i].data)) =>
            /\ calls[i].embedded
            /\ calls[i].mode = "vega-lite"
            /\ IsObject(calls[i].spec)
            /\ DOMAIN Obj(calls[i].spec) = DOMAIN Obj(calls[i].data) \cup {"config"}
            /\ \A k \in DOMAIN Obj(calls[i].data) :
                   Obj(calls[i].spec)[k] = Obj(calls[i].data)[k]
            /\ IsObject(Obj(calls[i].spec).config)
            /\ DOMAIN Obj(Obj(calls[i].spec).config) = {"cell"}
            /\ IsObject(Obj(Obj(calls[i].spec).config).cell)
            /\ SpecCell(calls[i]) = DefaultCellRecord

\* C4: the completion of a render call is never rejected, whatever the
\* embedder's callback reports; under any interleaving of renderModel calls
\* and callbacks it is resolved exactly when the callback of its own embed
\* call has fired, and pending until then.
C4_CompletionResolvesOnOwnCallback ==
    \A i \in 1..Len(calls) :
        /\ calls[i].promise # "rejected"
        /\ calls[i].embedded =>
               /\ calls[i].promise = "resolved" <=> calls[i].fired
               /\ calls[i].promise = "pending" <=> ~calls[i].fired

\* C4 witness: two renders overlap on one view; the callback of one has
\* reported an error and its completion is resolved, the other is pending.
C4_Witness ==
    \E i, j \in 1..Len(calls) :
        /\ i # j
        /\ calls[i].view = calls[j].view
        /\ calls[i].embedded /\ calls[i].fired /\ calls[i].error
        /\ calls[i].promise = "resolved"
        /\ calls[j].embedded /\ calls[j].promise = "pending"

\* C5: no step, and so no renderModel call and no merge, changes the
\* payload: S, S.config and S.config.cell keep exactly their keys and
\* values, and the model keeps its payloads.
C5_ArgumentNotMutated ==
    [][/\ model' = model
       /\ \A r \in ArgumentRefs : heap'[r] = heap[r]]_vars

\* C5 witness: a payload with a config.cell has been merged twice.
C5_Witness ==
    \E i, j \in LiteCalls :
        /\ i # j
        /\ calls[i].embedded /\ calls[j].embedded
        /\ HasCell(calls[i].data)
        /\ calls[i].data = calls[j].data

\* C6: in vega-lite mode a malformed payload (no payload under the bound
\* MIME type, or a config that is null or not an object) is handed to the
\* embedder in one embed call, a completion is returned and renderModel
\* raises no error.
C6_MalformedIsForwarded ==
    \A i \in LiteCalls :
        Malformed(calls[i].data) =>
            /\ ~calls[i].threw
            /\ calls[i].embedded
            /\ calls[i].promise # "none"

\* C7: in every case of the merge (no config, config without cell, config
\* with cell) caller-supplied content is preserved in the result: every key of
\* S.config other than cell is in the result's config with its original
\* value, and every top-level key of S other than config is in the result
\* with its original value.
C7_CallerContentPreserved ==
    \A i \in LiteCalls :
        WellFormed(calls[i].data) =>
            /\ calls[i].embedded
            /\ IsObject(calls[i].spec)
            /\ \A k \in DOMAIN Obj(calls[i].data) \ {"config"} :
                   /\ k \in DOMAIN Obj(calls[i].spec)
                   /\ Obj(calls[i].spec)[k] = Obj(calls[i].data)[k]
            /\ (HasConfig(calls[i].data) /\ IsObject(Obj(calls[i].data).config)) =>
                   /\ "config" \in DOMAIN Obj(calls[i].spec)
                   /\ IsObject(Obj(calls[i].spec).config)
                   /\ \A k \in DOMAIN Obj(Obj(calls[i].data).config) \ {"cell"} :
                          /\ k \in DOMAIN Obj(Obj(calls[i].spec).config)
                          /\ Obj(Obj(calls[i].spec).config)[k] =
                                 Obj(Obj(calls[i].data).config)[k]

\* C8: a renderModel call on a view bound to the Vega MIME type hands the
\* embedder, with mode "vega", the payload found under that MIME type as
\* supplied: the same value, no object of the heap added or changed.
C8_VegaPassesPayloadThrough ==
    [][(/\ Len(calls') = Len(calls) + 1
        /\ calls'[Len(calls')].mimeType = "application/vnd.vega.v2+json")
       => /\ heap' = heap
          /\ calls'[Len(calls')].embedded
          /\ calls'[Len(calls')].mode = "vega"
          /\ calls'[Len(calls')].spec =
                 IF "application/vnd.vega.v2+json" \in DOMAIN model.data
                 THEN model.data["application/vnd.vega.v2+json"]
                 ELSE Undefined]_vars

\* C8 witness: a Vega view has rendered a payload whose config has a cell.
C8_Witness ==
    \E i \in VegaCalls :
        /\ calls[i].embedded
        /\ HasCell(calls[i].data)
        /\ calls[i].spec = calls[i].data

\* C9: canCreateRenderer answers true exactly for the two registered MIME
\* type strings, false for every other string (the empty string and case
\* variants included), and the same after any sequence of factory calls.
C9_CanCreateExactlyRegistered ==
    /\ \A m \in MimeStrings :
           canCreateRenderer(mimeTypes, [mimeType |-> m]) <=>
               m \in {"application/vnd.vega.v2+json",
                      "application/vnd.vegalite.v1+json"}
    /\ lastAnswer.asked =>
           (lastAnswer.result <=>
                lastAnswer.mimeType \in {"application/vnd.vega.v2+json",
                                         "application/vnd.vegalite.v1+json"})

\* C9 witness: after views were created, the factory was asked about a
\* case variant of a registered type and answered false.
C9_Witness ==
    /\ Len(views) > 0
    /\ lastAnswer.asked
    /\ lastAnswer.mimeType = "APPLICATION/VND.VEGA.V2+JSON"
    /\ ~lastAnswer.result

\* C10: the merge adds nothing at the top level except config: the
\* top-level keys of the spec handed to the embedder are exactly the
\* top-level keys of S together with config.
C10_TopLevelKeysAreSpecPlusConfig ==
    \A i \in LiteCalls :
        (calls[i].embedded /\ WellFormed(calls[i].data)) =>
            /\ IsObject(calls[i].spec)
            /\ DOMAIN Obj(calls[i].spec) = DOMAIN Obj(calls[i].data) \cup {"config"}

===========================================================================
